---- MODULE Spec2Model ----
(***************************************************************************)
(* RouteRemotes: the host-side route registry (ServerNetwork), its         *)
(* middleware pipeline, and the peer-side registry (ClientNetwork).        *)
(*                                                                         *)
(* Strings are sequences of one-character strings, so that lower() and     *)
(* split("/") are computed as Luau computes them.  Objects (Route, its     *)
(* RemoteEvent) live in the heap `routes`; the id of a Route is also the   *)
(* identity of the remote it created.  Time is counted in ticks of one     *)
(* polling interval (0.1 s).                                               *)
(***************************************************************************)
EXTENDS Integers, Sequences, FiniteSets, TLC

VARIABLES
    started,    \* host: Network.instance is set
    routes,     \* host heap: sequence of Route objects ever constructed
    tree,       \* host: node (sequence of child keys from the root) -> Route id
    record,     \* host: Network.instance.record, path string -> Route id
    clock,      \* os.clock(), in ticks
    toHost,     \* FireServer messages not yet handed to a host listener
    toPeer,     \* FireClient messages not yet handed to a peer listener
    served,     \* requests for which a user handler has run
    client,     \* peer: Network.instance (routingTable, log) of the local player
    call,       \* peer: the InvokeServer activation of the local player
    last        \* the last call or listener run and how it ended

hostVars == <<started, routes, tree, record>>
netVars == <<clock, toHost, toPeer, served, client, call>>
vars == <<started, routes, tree, record, clock, toHost, toPeer, served, client, call,
          last>>

-----------------------------------------------------------------------------
(* Bounds of the model *)

\* Route objects the host may construct in one run (start builds three).
MaxRoutes == 5

\* the clock stops at MaxClock ticks
MaxClock == 7

\* messages in flight in one direction
MaxWire == 1

\* the clock stops earlier where the peer makes more calls
MaxPeerClock == 4

\* the clock runs past the five seconds start waits for the get-tree reply
MaxBootClock == 51

\* a thread in wait(0.1) is resumed at most MaxLate ticks after the 0.1 s
MaxLate == 2

\* requests the local player sends by InvokeServer after start
MaxInvokes == 1

-----------------------------------------------------------------------------
(* Strings *)

Slash == <<"/">>
ROOT_ROUTE_NAME == <<"r", "o", "o", "t">>
NetworkName == <<"n", "e", "t", "w", "o", "r", "k">>
GetTreeName == <<"g", "e", "t", "-", "t", "r", "e", "e">>
GetTreePath == ROOT_ROUTE_NAME \o Slash \o NetworkName \o Slash \o GetTreeName

\* string.lower on one character of the model's alphabet
lowerChar(c) ==
    CASE c = "A" -> "a"
      [] c = "B" -> "b"
      [] c = "R" -> "r"
      [] OTHER -> c

\* path.lower()
lower(s) == [i \in 1..Len(s) |-> lowerChar(s[i])]

\* path.split("/"): every "/" separates, empty pieces are kept
RECURSIVE split(_)
split(s) ==
    IF \A i \in 1..Len(s) : s[i] # "/"
    THEN <<s>>
    ELSE LET k == CHOOSE i \in 1..Len(s) :
                      s[i] = "/" /\ \A j \in 1..(i - 1) : s[j] # "/"
         IN  <<SubSeq(s, 1, k - 1)>> \o split(SubSeq(s, k + 1, Len(s)))

-----------------------------------------------------------------------------
(* Players, middleware and Route objects *)

Players == {1, 2}

\* log[playerId] is undefined
NoLog == -1

\* the two time constants of start(), in seconds, and seconds in ticks
TicksPerSecond == 10
ROOT_ROUTE_CD == 10
NetworkCooldown == 5
CreatedCooldown == 1

\* new Middleware(clientSideCooldown, callBacks)
Middleware(clientSideCooldown, callBacks) ==
    [present |-> TRUE, clientSideCooldown |-> clientSideCooldown,
     middlewares |-> callBacks, log |-> [p \in Players |-> NoLog]]

\* middleware: false
NoMiddleware ==
    [present |-> FALSE, clientSideCooldown |-> 0,
     middlewares |-> <<>>, log |-> [p \in Players |-> NoLog]]

\* route.connection === undefined
NoConnection ==
    [handle |-> FALSE, connected |-> FALSE, eventType |-> "none", callback |-> "none"]

\* the RBXScriptConnection returned by remote.OnServerEvent[eventType](callback)
Connection(eventType, callback) ==
    [handle |-> TRUE, connected |-> TRUE, eventType |-> eventType, callback |-> callback]

\* new Route(path, name, secure, remoteType, middleware); `remote` is the
\* identity of the RemoteEvent the constructor creates, `at` the tree node
\* the object was made for.
Route(id, at, path, name, secure, remoteType, middleware) ==
    [remote |-> id, at |-> at, path |-> path, name |-> name, secure |-> secure,
     remoteType |-> remoteType, middleware |-> middleware,
     connection |-> NoConnection]

-----------------------------------------------------------------------------
(* The route tree.  A node is the sequence of child keys that leads to it  *)
(* from the root; TreeNode.children of a node are the nodes one key longer.*)

RootNode == <<>>

IsPrefix(a, b) == Len(a) <= Len(b) /\ SubSeq(b, 1, Len(a)) = a

\* TreeNode.getChild(name) is not undefined
hasChild(t, node, name) == Append(node, name) \in DOMAIN t

\* the children map of a node: its strict descendants, keyed relative to it
childrenOf(t, node) ==
    LET below == {n \in DOMAIN t : IsPrefix(node, n) /\ n # node}
    IN  [rel \in {SubSeq(n, Len(node) + 1, Len(n)) : n \in below}
            |-> t[node \o rel]]

\* parent.children[name] = new TreeNode(route, childs): the old node and all
\* below it leave the tree, the new node comes with the children map given.
setChildTreeNodeDroppingChildren(t, node, id, childs) ==
    LET kept == {n \in DOMAIN t : ~IsPrefix(node, n)}
    IN  [n \in kept \cup {node} |-> IF n = node THEN id ELSE t[n]]

setChildTreeNode(t, node, id, childs) ==
    LET kept == {n \in DOMAIN t : ~IsPrefix(node, n)}
        graft == {node \o rel : rel \in DOMAIN childs}
    IN  [n \in kept \cup {node} \cup graft |->
            IF n = node THEN id
            ELSE IF n \in graft THEN childs[SubSeq(n, Len(node) + 1, Len(n))]
            ELSE t[n]]

-----------------------------------------------------------------------------
(* Host operations as functions of the host state.  A call returns the     *)
(* state it leaves, the error it threw ("none" when it returned) and its   *)
(* value.                                                                  *)

Host == [started |-> started, routes |-> routes, tree |-> tree, record |-> record]

Ret(h, err, val) == [h |-> h, err |-> err, val |-> val]

\* `x in this.instance.unEditableRoutes`: the keys of an array are its
\* indices, the key asked for is a string.
unEditableRoutes == <<GetTreePath>>
ArrayKeys(arr) == {[index |-> i] : i \in DOMAIN arr}
StringKey(s) == [string |-> s]
keyIn(s, arr) == StringKey(s) \in ArrayKeys(arr)

RECURSIVE walk(_, _, _, _, _)

\* the for loop of traversePath, from currentNode over the remaining parts
walk(h, currentNode, parts, currentPath, createMissing) ==
    IF parts = <<>>
    THEN Ret(h, "none", currentNode)
    ELSE LET part == Head(parts)
             path == currentPath \o Slash \o part
             nextNode == Append(currentNode, part)
         IN  IF hasChild(h.tree, currentNode, part)
             THEN walk(h, nextNode, Tail(parts), path, createMissing)
             ELSE IF ~createMissing
             THEN Ret(h, "RouteNotFound", currentNode)
             ELSE LET id == Len(h.routes) + 1
                      made == Route(id, nextNode, path, part, TRUE, "event",
                                    Middleware(CreatedCooldown * TicksPerSecond, <<>>))
                      h2 == [h EXCEPT !.routes = Append(@, made),
                                      !.tree = @ @@ (nextNode :> id)]
                  IN  walk(h2, nextNode, Tail(parts), path, createMissing)

\* Network.traversePath(path, createMissing) once `instance` is set
traversePathOn(h, path, createMissing) ==
    LET pathParts == split(lower(path))
    IN  IF Len(pathParts) < 1 \/ pathParts[1] # ROOT_ROUTE_NAME
        THEN Ret(h, "InvalidPath", RootNode)
        ELSE IF Len(pathParts) = 1
        THEN Ret(h, "none", RootNode)
        ELSE walk(h, RootNode, Tail(pathParts), ROOT_ROUTE_NAME, createMissing)

\* Network.getRoute, lines 347-349: cache and return the Route of the node
\* the traversal t found
cacheRoute(t, path) ==
    IF t.err # "none"
    THEN Ret(t.h, t.err, 0)
    ELSE Ret([t.h EXCEPT !.record = @ @@ (path :> t.h.tree[t.val])],
             "none", t.h.tree[t.val])

\* Network.getRoute(path) once `instance` is set: the value is a Route id
getRouteOn(h, path) ==
    IF path = ROOT_ROUTE_NAME
    THEN Ret(h, "none", h.tree[RootNode])
    ELSE IF path \in DOMAIN h.record
    THEN Ret(h, "none", h.record[path])
    ELSE cacheRoute(traversePathOn(h, path, FALSE), path)

\* OnEvent / OnInvoke after `const route = this.getRoute(path)`: g is what
\* getRoute returned, remoteType the kind the call asks for
connect(g, remoteType, eventType, callback) ==
    IF g.err # "none" THEN g
    ELSE IF g.h.routes[g.val].remoteType # remoteType
    THEN Ret(g.h, "WrongCallKind", 0)
    ELSE IF g.h.routes[g.val].connection.handle
    THEN Ret(g.h, "AlreadyConnected", 0)
    ELSE Ret([g.h EXCEPT !.routes[g.val].connection = Connection(eventType, callback)],
             "none", g.val)

\* Network.OnInvoke(eventType, path, callback) past its `instance` check
OnInvokeOn(h, eventType, path, callback) ==
    connect(getRouteOn(h, path), "function", eventType, callback)

\* Network.start().  The first version has no `if (this.instance) return`.
startAgain(h) ==
    LET rootRoute == Route(1, RootNode, ROOT_ROUTE_NAME, ROOT_ROUTE_NAME, TRUE,
                           "event", Middleware(ROOT_ROUTE_CD * TicksPerSecond, <<>>))
        networkRoute == Route(2, <<NetworkName>>, ROOT_ROUTE_NAME \o Slash,
                              NetworkName, TRUE, "event",
                              Middleware(NetworkCooldown * TicksPerSecond, <<>>))
        getTreeRoute == Route(3, <<NetworkName, GetTreeName>>,
                              ROOT_ROUTE_NAME \o Slash \o NetworkName,
                              GetTreeName, TRUE, "function",
                              Middleware(NetworkCooldown * TicksPerSecond, <<>>))
        h1 == [started |-> TRUE,
               routes |-> <<rootRoute, networkRoute, getTreeRoute>>,
               tree |-> (RootNode :> 1) @@ (<<NetworkName>> :> 2)
                        @@ (<<NetworkName, GetTreeName>> :> 3),
               record |-> <<>>]
    IN  Ret(OnInvokeOn(h1, "Connect", GetTreePath, "get-tree").h, "none", 0)

start(h) ==
    IF h.started
    THEN Ret(h, "none", 0)
    ELSE LET rootRoute == Route(1, RootNode, ROOT_ROUTE_NAME, ROOT_ROUTE_NAME, TRUE,
                                "event", Middleware(ROOT_ROUTE_CD * TicksPerSecond, <<>>))
             networkRoute == Route(2, <<NetworkName>>, ROOT_ROUTE_NAME \o Slash,
                                   NetworkName, TRUE, "event",
                                   Middleware(NetworkCooldown * TicksPerSecond, <<>>))
             getTreeRoute == Route(3, <<NetworkName, GetTreeName>>,
                                   ROOT_ROUTE_NAME \o Slash \o NetworkName,
                                   GetTreeName, TRUE, "function",
                                   Middleware(NetworkCooldown * TicksPerSecond, <<>>))
             h1 == [started |-> TRUE,
                    routes |-> <<rootRoute, networkRoute, getTreeRoute>>,
                    tree |-> (RootNode :> 1) @@ (<<NetworkName>> :> 2)
                             @@ (<<NetworkName, GetTreeName>> :> 3),
                    record |-> <<>>]
         IN  Ret(OnInvokeOn(h1, "Connect", GetTreePath, "get-tree").h, "none", 0)

\* Network.traversePath(path, createMissing)
traversePath(h, path, createMissing) ==
    IF ~h.started
    THEN \* `this.instance ?? this.start()`: start() returns nothing
         Ret(start(h).h, "NilInstance", RootNode)
    ELSE traversePathOn(h, path, createMissing)

\* Network.getRoute(path)
getRoute(h, path) ==
    IF ~h.started
    THEN Ret(start(h).h, "NilInstance", 0)
    ELSE getRouteOn(h, path)

\* Network.OnInvoke(eventType, path, callback)
OnInvoke(h, eventType, path, callback) ==
    IF ~h.started
    THEN Ret(h, "NotInitialized", 0)
    ELSE OnInvokeOn(h, eventType, path, callback)

\* Network.NewRoute, lines 367-374: t is what traversePath(path, true)
\* returned.  The first version adds the child without the getChild test.
addRouteOverwriting(t, path, routeParam) ==
    LET node == Append(t.val, routeParam.endPoint)
        id == Len(t.h.routes) + 1
        made == Route(id, node, path, routeParam.endPoint, routeParam.secure,
                      routeParam.remoteType, routeParam.middleware)
    IN  IF t.err # "none" THEN Ret(t.h, t.err, 0)
        ELSE Ret([t.h EXCEPT !.routes = Append(@, made),
                             !.tree = setChildTreeNode(@, node, id, <<>>)],
                 "none", id)

addRoute(t, path, routeParam) ==
    LET node == Append(t.val, routeParam.endPoint)
        id == Len(t.h.routes) + 1
        made == Route(id, node, path, routeParam.endPoint, routeParam.secure,
                      routeParam.remoteType, routeParam.middleware)
    IN  IF t.err # "none" THEN Ret(t.h, t.err, 0)
        ELSE IF hasChild(t.h.tree, t.val, routeParam.endPoint)
        THEN Ret(t.h, "DuplicateRoute", 0)
        ELSE Ret([t.h EXCEPT !.routes = Append(@, made),
                             !.tree = @ @@ (node :> id)],
                 "none", id)

\* Network.NewRoute(path, routeParam)
NewRoute(h, path, routeParam) ==
    addRoute(traversePath(h, path, TRUE), path, routeParam)

\* Network.EditRoute, lines 400-409: t is what traversePath(path) returned
replaceRoute(t, path, routeParam) ==
    LET node == Append(t.val, routeParam.endPoint)
        id == Len(t.h.routes) + 1
        made == Route(id, node, path, routeParam.endPoint, routeParam.secure,
                      routeParam.remoteType, routeParam.middleware)
    IN  IF t.err # "none" THEN Ret(t.h, t.err, 0)
        ELSE IF ~hasChild(t.h.tree, t.val, routeParam.endPoint)
        THEN Ret(t.h, "warn-missing", 0)
        ELSE Ret([t.h EXCEPT !.routes = Append(@, made),
                             !.tree = setChildTreeNode(@, node, id,
                                                       childrenOf(t.h.tree, node))],
                 "none", id)

\* Network.EditRoute(path, routeParam)
EditRoute(h, path, routeParam) ==
    IF ~h.started
    THEN Ret(h, "NotInitialized", 0)
    ELSE IF keyIn(lower(path), unEditableRoutes)
    THEN Ret(h, "warn-uneditable", 0)
    ELSE replaceRoute(traversePath(h, path, FALSE), path, routeParam)

\* Network.OnEvent(eventType, path, callback).  The first version lacks
\* the `if (!this.instance) throw`.
OnEventStarting(h, eventType, path, callback) ==
    connect(getRoute(start(h).h, path), "event", eventType, callback)

OnEvent(h, eventType, path, callback) ==
    IF ~h.started
    THEN Ret(h, "NotInitialized", 0)
    ELSE connect(getRoute(start(h).h, path), "event", eventType, callback)

\* Network.Disconnect, lines 524-527: g is what getRoute returned
disconnectRoute(g) ==
    IF g.err # "none" THEN g
    ELSE IF g.h.routes[g.val].connection.handle
    THEN Ret([g.h EXCEPT !.routes[g.val].connection = NoConnection], "none", g.val)
    ELSE Ret(g.h, "none", g.val)

\* Network.Disconnect(path)
Disconnect(h, path) == disconnectRoute(getRoute(start(h).h, path))

\* FireClient / FireAllClients / FireClientsInList after `const route =
\* this.getRoute(path)`: g is what getRoute returned, the value is the
\* remote the call fires on
fireOn(g) ==
    IF g.err # "none" THEN g
    ELSE IF g.h.routes[g.val].remoteType # "event"
    THEN Ret(g.h, "WrongCallKind", 0)
    ELSE Ret(g.h, "none", g.h.routes[g.val].remote)

\* Network.FireClient(path, player, ...args)
FireClient(h, path) == fireOn(getRoute(start(h).h, path))

\* Network.FireAllClients(path, ...args)
FireAllClients(h, path) == fireOn(getRoute(start(h).h, path))

\* Network.FireClientsInList(path, players, ...args)
FireClientsInList(h, path) == fireOn(getRoute(start(h).h, path))

\* the PlayerRemoving listener clearRouteLogs connects: it walks the record
\* it was given, the cache of the instance
clearRouteLogs(h, playerId) ==
    LET cached == {h.record[key] : key \in DOMAIN h.record}
    IN  [h EXCEPT !.routes =
            [i \in DOMAIN h.routes |->
                IF i \in cached /\ h.routes[i].middleware.present
                THEN [h.routes[i] EXCEPT !.middleware.log[playerId] = NoLog]
                ELSE h.routes[i]]]

-----------------------------------------------------------------------------
(* Middleware.execute and the listeners OnEvent / OnInvoke install *)

\* what a middleware callback does with the arguments of a call: "log" only
\* has its effect, "check" throws unless the arguments are of the right type
raises(callback, args) == callback = "check" /\ args = "bad"

\* the for loop of execute inside its try block: the indices of the
\* callbacks that were called, and whether one of them threw
RECURSIVE runMiddlewares(_, _, _)
runMiddlewares(middlewares, k, args) ==
    IF k > Len(middlewares)
    THEN [ran |-> <<>>, threw |-> FALSE]
    ELSE IF raises(middlewares[k], args)
    THEN [ran |-> <<k>>, threw |-> TRUE]
    ELSE LET rest == runMiddlewares(middlewares, k + 1, args)
         IN  [ran |-> <<k>> \o rest.ran, threw |-> rest.threw]

\* Middleware.execute, lines 100-109: the cooldown test.  The first version
\* also rejects a call made exactly clientSideCooldown after the last use.
coolingDownInclusive(mw, playerId, currentTime) ==
    /\ mw.log[playerId] # NoLog
    /\ currentTime - mw.log[playerId] <= mw.clientSideCooldown

coolingDown(mw, playerId, currentTime) ==
    /\ mw.log[playerId] # NoLog
    /\ currentTime - mw.log[playerId] < mw.clientSideCooldown

\* Middleware.execute(player, currentTime, ...args).  The first version
\* records the use only when every callback has completed.
executeLoggingOnSuccess(mw, playerId, currentTime, args) ==
    IF coolingDown(mw, playerId, currentTime)
    THEN [middleware |-> mw, ok |-> FALSE, ran |-> <<>>, why |-> "cooldown"]
    ELSE LET run == runMiddlewares(mw.middlewares, 1, args)
         IN  [middleware |-> IF run.threw THEN mw
                             ELSE [mw EXCEPT !.log[playerId] = currentTime],
              ok |-> ~run.threw, ran |-> run.ran,
              why |-> IF run.threw THEN "raised" ELSE "passed"]

execute(mw, playerId, currentTime, args) ==
    IF coolingDown(mw, playerId, currentTime)
    THEN [middleware |-> mw, ok |-> FALSE, ran |-> <<>>, why |-> "cooldown"]
    ELSE LET run == runMiddlewares(mw.middlewares, 1, args)
         IN  [middleware |-> [mw EXCEPT !.log[playerId] = currentTime],
              ok |-> ~run.threw, ran |-> run.ran,
              why |-> IF run.threw THEN "raised" ELSE "passed"]

\* the gate at the head of both listeners: `if (middleware) { if
\* (!middleware.execute(...)) return }`.  The first version goes on to the
\* handler whatever execute returned.
gateAlwaysOpen(route, playerId, currentTime, args) ==
    IF route.middleware.present
    THEN [execute(route.middleware, playerId, currentTime, args) EXCEPT !.ok = TRUE]
    ELSE [middleware |-> route.middleware, ok |-> TRUE, ran |-> <<>>, why |-> "passed"]

gate(route, playerId, currentTime, args) ==
    IF route.middleware.present
    THEN execute(route.middleware, playerId, currentTime, args)
    ELSE [middleware |-> route.middleware, ok |-> TRUE, ran |-> <<>>, why |-> "passed"]

\* a connection after its listener has run once: Once disconnects itself
afterFiring(connection) ==
    IF connection.eventType = "Once"
    THEN [connection EXCEPT !.connected = FALSE]
    ELSE connection

\* a value that may be undefined: <<>> when it is, <<v>> when it is v
Undefined == <<>>
Defined(v) == <<v>>

\* the value a user OnInvoke callback returns for a request: a value, or
\* nothing for the arguments it has no answer to
resultOf(callback, args) ==
    IF callback = "invoke" /\ args # "void" THEN Defined("sum") ELSE Undefined

\* depthFirstSearch(node, path, simplifiedTree): the (fullPath, routeInfo)
\* assignments it makes to simplifiedTree, each with the node visited
NoCooldown == -1

RECURSIVE depthFirstSearch(_, _, _)
depthFirstSearch(h, node, path) ==
    LET route == h.routes[h.tree[node]]
        fullPath == IF path = <<>> THEN route.name ELSE path \o Slash \o route.name
        routeInfo == [secure |-> route.secure, remote |-> route.remote,
                      remoteType |-> route.remoteType,
                      cooldown |-> IF route.middleware.present
                                   THEN route.middleware.clientSideCooldown
                                   ELSE NoCooldown]
        kids == {n \in DOMAIN h.tree : Len(n) = Len(node) + 1 /\ IsPrefix(node, n)}
    IN  {[key |-> fullPath, info |-> routeInfo, node |-> node]}
        \cup UNION {depthFirstSearch(h, k, fullPath) : k \in kids}

-----------------------------------------------------------------------------
(* Addresses *)

\* the address of a node: the root name and the child keys joined by "/"
RECURSIVE JoinKeys(_)
JoinKeys(keys) ==
    IF keys = <<>> THEN <<>> ELSE Slash \o Head(keys) \o JoinKeys(Tail(keys))

Address(node) == ROOT_ROUTE_NAME \o JoinKeys(node)

\* the flattened table of the whole tree
Flatten(h) == depthFirstSearch(h, RootNode, <<>>)

\* the Route objects, replaced ones included, whose listener is connected
LiveRoutes == {i \in 1..Len(routes) : routes[i].connection.connected}

-----------------------------------------------------------------------------
(* The peer: ClientNetwork of the local player *)

LocalPlayer == 1
BootstrapCooldown == 5
BootstrapWait == 5

\* the static fields before start
\* (sent, not in the code, counts the requests the player has sent)
NoInstance ==
    [instance |-> "none", routingTable |-> <<>>, log |-> <<>>, connections |-> <<>>,
     sent |-> 0]

\* no InvokeServer has been called yet
NoCall ==
    [pc |-> "idle", caller |-> "none", route |-> <<>>, remote |-> 0, args |-> "none",
     req |-> 0, waitTime |-> 0, startTime |-> 0, wake |-> 0, listening |-> FALSE,
     result |-> Undefined, ret |-> Undefined, retAt |-> 0,
     \* not in the code: whether the host listener was connected when the
     \* request was sent, and the request whose reply the listener received
     attached |-> FALSE, got |-> 0]

\* `throw` out of InvokeServer before anything was sent
threw(c, caller, route, args, err) ==
    [client |-> c, send |-> <<>>,
     call |-> [NoCall EXCEPT !.pc = err, !.caller = caller, !.route = route,
                             !.args = args]]

\* the cooldown test of FireServer and InvokeServer.  The first version
\* also refuses a call made exactly `cooldown` after the logged one.
onCooldownInclusive(c, route, routeInfo, currentTime) ==
    /\ routeInfo.cooldown # NoCooldown
    /\ routeInfo.cooldown # 0
    /\ route \in DOMAIN c.log
    /\ currentTime - c.log[route] <= routeInfo.cooldown

onCooldown(c, route, routeInfo, currentTime) ==
    /\ routeInfo.cooldown # NoCooldown
    /\ routeInfo.cooldown # 0
    /\ route \in DOMAIN c.log
    /\ currentTime - c.log[route] < routeInfo.cooldown

\* the poll loop of InvokeServer, from the evaluation of its condition: the
\* thread goes into wait(0.1) or leaves the loop, disconnects and returns.
\* The first version stays in the loop when exactly waitTime has elapsed.
pollInclusive(frame, currentTime) ==
    IF currentTime - frame.startTime <= frame.waitTime /\ frame.result = Undefined
    THEN [frame EXCEPT !.pc = "waiting", !.wake = currentTime + 1]
    ELSE [frame EXCEPT !.pc = "returned", !.listening = FALSE,
                       !.ret = frame.result, !.retAt = currentTime]

\* a loop exit that leaves the listener connected when no reply has come
pollKeepsListening(frame, currentTime) ==
    IF currentTime - frame.startTime < frame.waitTime /\ frame.result = Undefined
    THEN [frame EXCEPT !.pc = "waiting", !.wake = currentTime + 1]
    ELSE [frame EXCEPT !.pc = "returned", !.ret = frame.result, !.retAt = currentTime]

poll(frame, currentTime) ==
    IF currentTime - frame.startTime < frame.waitTime /\ frame.result = Undefined
    THEN [frame EXCEPT !.pc = "waiting", !.wake = currentTime + 1]
    ELSE [frame EXCEPT !.pc = "returned", !.listening = FALSE,
                       !.ret = frame.result, !.retAt = currentTime]

\* Network.InvokeServer(route, waitTime, ...args) up to its first wait
InvokeServer(c, caller, route, waitTime, args, currentTime) ==
    IF c.instance = "none"
    THEN threw(c, caller, route, args, "NotInitialized")
    ELSE IF route \notin DOMAIN c.routingTable
    THEN threw(c, caller, route, args, "RouteNotFound")
    ELSE IF c.routingTable[route].remoteType # "function"
    THEN threw(c, caller, route, args, "WrongCallKind")
    ELSE IF onCooldown(c, route, c.routingTable[route], currentTime)
    THEN threw(c, caller, route, args, "CooldownActive")
    ELSE LET remote == c.routingTable[route].remote
             req == c.sent + 1
             frame == [NoCall EXCEPT !.caller = caller, !.route = route,
                                     !.remote = remote, !.args = args, !.req = req,
                                     !.waitTime = waitTime, !.startTime = currentTime,
                                     !.listening = TRUE]
         IN  [client |-> [c EXCEPT !.log = (route :> currentTime) @@ @, !.sent = req],
              send |-> <<[player |-> LocalPlayer, remote |-> remote, args |-> args,
                          req |-> req]>>,
              call |-> poll(frame, currentTime)]

\* Network.start(), lines 52-59: `new Network({...})` with the bootstrap
\* table
bootstrap(c, getTreeRemote) ==
    [NoInstance EXCEPT
        !.instance = "bootstrap",
        !.routingTable = (GetTreePath :>
            [cooldown |-> BootstrapCooldown * TicksPerSecond, secure |-> TRUE,
             remoteType |-> "function", remote |-> getTreeRemote]),
        !.sent = c.sent]

\* a start that does not unset the instance when get-tree returned undefined
installedKeepsBootstrap(c, frame) ==
    IF frame.pc # "returned" \/ frame.caller # "start" \/ frame.ret = Undefined
    THEN c
    ELSE [NoInstance EXCEPT !.instance = "table", !.routingTable = frame.ret[1],
                            !.sent = c.sent]

\* Network.start(), lines 61-66: what start does with the value InvokeServer
\* returned: unset the instance and throw, or `new Network(simplifiedTree)`
installed(c, frame) ==
    IF frame.pc # "returned" \/ frame.caller # "start"
    THEN c
    ELSE IF frame.ret = Undefined
    THEN [NoInstance EXCEPT !.sent = c.sent]
    ELSE [NoInstance EXCEPT !.instance = "table", !.routingTable = frame.ret[1],
                            !.sent = c.sent]

\* Network.start() of the peer up to the first wait of its InvokeServer.
\* The first version has no `if (!this.instance)`.
startClientAgain(c, frame, getTreeRemote, currentTime) ==
    LET r == InvokeServer(bootstrap(c, getTreeRemote), "start", GetTreePath,
                          BootstrapWait * TicksPerSecond, "none", currentTime)
    IN  [client |-> installed(r.client, r.call), send |-> r.send, call |-> r.call]

startClient(c, frame, getTreeRemote, currentTime) ==
    IF c.instance # "none"
    THEN [client |-> c, send |-> <<>>, call |-> frame]
    ELSE LET r == InvokeServer(bootstrap(c, getTreeRemote), "start", GetTreePath,
                               BootstrapWait * TicksPerSecond, "none", currentTime)
         IN  [client |-> installed(r.client, r.call), send |-> r.send, call |-> r.call]

\* a peer call that is not InvokeServer: the instance it leaves, what it
\* sends and the error it threw
PeerRet(c, send, err) == [client |-> c, send |-> send, err |-> err]

\* Network.FireServer(route, ...args) of the peer
FireServer(c, route, args, currentTime) ==
    IF c.instance = "none"
    THEN PeerRet(c, <<>>, "NotInitialized")
    ELSE IF route \notin DOMAIN c.routingTable
    THEN PeerRet(c, <<>>, "RouteNotFound")
    ELSE IF c.routingTable[route].remoteType = "function"
    THEN PeerRet(c, <<>>, "WrongCallKind")
    ELSE IF onCooldown(c, route, c.routingTable[route], currentTime)
    THEN PeerRet(c, <<>>, "CooldownActive")
    ELSE PeerRet([c EXCEPT !.log = (route :> currentTime) @@ @],
                 <<[player |-> LocalPlayer, remote |-> c.routingTable[route].remote,
                    args |-> args, req |-> 0]>>,
                 "none")

\* the RBXScriptConnection returned by remote.OnClientEvent[eventType](...)
OnClientEvent(eventType, remote) ==
    [handle |-> TRUE, connected |-> TRUE, eventType |-> eventType,
     callback |-> "listen", remote |-> remote]

\* Network.OnEvent(eventType, route, callback) of the peer
peerOnEvent(c, eventType, route) ==
    IF c.instance = "none"
    THEN PeerRet(c, <<>>, "NotInitialized")
    ELSE IF route \notin DOMAIN c.routingTable
    THEN PeerRet(c, <<>>, "RouteNotFound")
    ELSE IF c.routingTable[route].remoteType = "function"
    THEN PeerRet(c, <<>>, "WrongCallKind")
    ELSE IF route \in DOMAIN c.connections
    THEN PeerRet(c, <<>>, "AlreadyConnected")
    ELSE PeerRet([c EXCEPT !.connections =
                      (route :> OnClientEvent(eventType, c.routingTable[route].remote))
                      @@ @],
                 <<>>, "none")

\* Network.Disconnect(route) of the peer
peerDisconnect(c, route) ==
    IF c.instance = "none"
    THEN PeerRet(c, <<>>, "NotInitialized")
    ELSE PeerRet([c EXCEPT !.connections =
                      [r \in DOMAIN c.connections \ {route} |-> c.connections[r]]],
                 <<>>, "none")

-----------------------------------------------------------------------------
(* Inputs of the host calls *)

StrA == <<"a">>
StrUpperA == <<"A">>
PathRoot == ROOT_ROUTE_NAME
PathA == ROOT_ROUTE_NAME \o Slash \o StrA
PathUpperA == ROOT_ROUTE_NAME \o Slash \o StrUpperA
PathAA == PathA \o Slash \o StrA
PathNetwork == ROOT_ROUTE_NAME \o Slash \o NetworkName
PathBad == StrA

RouteParam(endPoint, remoteType, middleware) ==
    [endPoint |-> endPoint, secure |-> TRUE, remoteType |-> remoteType,
     middleware |-> middleware]

NewRoutePaths == {PathRoot, PathA, PathBad}
EditRoutePaths == {PathRoot, PathNetwork}
NewRouteParams ==
    {RouteParam(StrA, "event", NoMiddleware), RouteParam(StrA, "function", NoMiddleware),
     RouteParam(StrUpperA, "event", NoMiddleware)}
EditRouteParams ==
    {RouteParam(StrA, "event", NoMiddleware), RouteParam(NetworkName, "event", NoMiddleware),
     RouteParam(GetTreeName, "event", NoMiddleware)}
ListenPaths == {PathA, PathUpperA, GetTreePath}

\* inputs of the host and the peer that send and listen on root/a
PeerRouteParams == {RouteParam(StrA, "event", Middleware(2, <<>>))}
PeerEditRouteParams == {RouteParam(StrA, "function", Middleware(2, <<>>))}
PeerPaths == {PathA, GetTreePath}

\* inputs of the host that edits routes that exist and routes that do not
StrB == <<"b">>
PathB == ROOT_ROUTE_NAME \o Slash \o StrB
MissingNewRouteParams == {RouteParam(StrA, "event", NoMiddleware)}
MissingEditRouteParams ==
    {RouteParam(StrA, "function", NoMiddleware), RouteParam(StrB, "event", NoMiddleware)}
MissingEditRoutePaths == {PathRoot, PathA, PathB}

\* inputs of the host that fires at its peers
FireNewRouteParams == {RouteParam(StrA, "event", NoMiddleware)}
FireEditRouteParams == {RouteParam(StrA, "function", NoMiddleware)}
FirePaths == {PathA, PathUpperA, GetTreePath}

Last(op, r, path, endPoint) ==
    [op |-> op, outcome |-> r.err, val |-> r.val, path |-> path, endPoint |-> endPoint,
     player |-> 0, args |-> "none", ran |-> <<>>, handled |-> FALSE]

\* a call may run only while the heap stays within MaxRoutes
Fits(r) == Len(r.h.routes) <= MaxRoutes

\* the host after the call that returned r
Becomes(r) ==
    /\ Fits(r)
    /\ started' = r.h.started
    /\ routes' = r.h.routes
    /\ tree' = r.h.tree
    /\ record' = r.h.record
    /\ UNCHANGED netVars

-----------------------------------------------------------------------------
(* Actions: one per public host call *)

Init ==
    /\ started = FALSE
    /\ routes = <<>>
    /\ tree = <<>>
    /\ record = <<>>
    /\ clock = 0
    /\ toHost = <<>>
    /\ toPeer = <<>>
    /\ served = {}
    /\ client = NoInstance
    /\ call = NoCall
    /\ last = [op |-> "none", outcome |-> "none", val |-> 0, path |-> <<>>,
               endPoint |-> <<>>, player |-> 0, args |-> "none", ran |-> <<>>,
               handled |-> FALSE]

ServerStart ==
    LET r == start(Host)
    IN  /\ Becomes(r)
        /\ last' = Last("start", r, <<>>, <<>>)

ServerNewRoute(paths, routeParams) ==
    \E path \in paths, routeParam \in routeParams :
        LET r == NewRoute(Host, path, routeParam)
        IN  /\ Becomes(r)
            /\ last' = Last("NewRoute", r, path, routeParam.endPoint)

ServerEditRoute(paths, routeParams) ==
    \E path \in paths, routeParam \in routeParams :
        LET r == EditRoute(Host, path, routeParam)
        IN  /\ Becomes(r)
            /\ last' = Last("EditRoute", r, path, routeParam.endPoint)

ServerOnEvent(eventTypes, paths) ==
    \E eventType \in eventTypes, path \in paths :
        LET r == OnEvent(Host, eventType, path, "event")
        IN  /\ Becomes(r)
            /\ last' = Last("OnEvent", r, path, <<>>)

ServerOnInvoke(eventTypes, paths) ==
    \E eventType \in eventTypes, path \in paths :
        LET r == OnInvoke(Host, eventType, path, "invoke")
        IN  /\ Becomes(r)
            /\ last' = Last("OnInvoke", r, path, <<>>)

ServerDisconnect(paths) ==
    \E path \in paths :
        LET r == Disconnect(Host, path)
        IN  /\ Becomes(r)
            /\ last' = Last("Disconnect", r, path, <<>>)

\* the FireClient messages one call puts on a remote, one per target
RECURSIVE fireEach(_, _)
fireEach(remote, targets) ==
    IF targets = {} THEN <<>>
    ELSE LET player == CHOOSE p \in targets : \A q \in targets : p <= q
         IN  <<[player |-> player, remote |-> remote, payload |-> Defined("event"),
                req |-> 0]>> \o fireEach(remote, targets \ {player})

\* the host and the wire after the fire call that returned r
Fires(r, targets) ==
    /\ Fits(r)
    /\ \A p \in targets :
          Cardinality({i \in 1..Len(toPeer) : toPeer[i].player = p}) < MaxWire
    /\ started' = r.h.started
    /\ routes' = r.h.routes
    /\ tree' = r.h.tree
    /\ record' = r.h.record
    /\ toPeer' = IF r.err = "none" THEN toPeer \o fireEach(r.val, targets) ELSE toPeer
    /\ UNCHANGED <<clock, toHost, served, client, call>>

ServerFireClient(paths, players) ==
    \E path \in paths, player \in players :
        LET r == FireClient(Host, path)
        IN  /\ Fires(r, {player})
            /\ last' = [Last("FireClient", r, path, <<>>) EXCEPT !.player = player]

ServerFireAllClients(paths) ==
    \E path \in paths :
        LET r == FireAllClients(Host, path)
        IN  /\ Fires(r, Players)
            /\ last' = Last("FireAllClients", r, path, <<>>)

\* the players of the list that Players.GetPlayers() includes are fired at
ServerFireClientsInList(paths, lists) ==
    \E path \in paths, players \in lists :
        LET r == FireClientsInList(Host, path)
        IN  /\ Fires(r, players \cap Players)
            /\ last' = Last("FireClientsInList", r, path, <<>>)

\* Players.PlayerRemoving fires for a player whose messages have all been
\* handled
PlayerRemoving(players) ==
    \E player \in players :
        /\ started
        /\ \A i \in 1..Len(toHost) : toHost[i].player # player
        /\ routes' = clearRouteLogs(Host, player).routes
        /\ last' = [op |-> "PlayerRemoving", outcome |-> "none", val |-> 0,
                    path |-> <<>>, endPoint |-> <<>>, player |-> player,
                    args |-> "none", ran |-> <<>>, handled |-> FALSE]
        /\ UNCHANGED <<started, tree, record, netVars>>

-----------------------------------------------------------------------------
(* Actions: the transport and the host listeners *)

\* messages of one player on one remote are delivered in the order sent
Deliverable(queue, i) ==
    \A j \in 1..(i - 1) :
        ~(queue[j].player = queue[i].player /\ queue[j].remote = queue[i].remote)

RemoveAt(queue, i) == SubSeq(queue, 1, i - 1) \o SubSeq(queue, i + 1, Len(queue))

\* a get-tree handler whose table leaves the cooldowns out
simplifiedTreeNoCooldown(h) ==
    [key \in {e.key : e \in Flatten(h)} |->
        [(CHOOSE e \in Flatten(h) : e.key = key).info EXCEPT !.cooldown = NoCooldown]]

\* the table the get-tree handler returns: simplifiedTree after
\* depthFirstSearch has filled it
simplifiedTree(h) ==
    [key \in {e.key : e \in Flatten(h)} |->
        (CHOOSE e \in Flatten(h) : e.key = key).info]

\* remote.FireServer(...args) by a peer that holds the remote of one of
\* the given tree nodes
RemoteFireServer(players, nodes, argses) ==
    \E player \in players, node \in nodes \cap DOMAIN tree, args \in argses :
        /\ Len(toHost) < MaxWire
        /\ toHost' = Append(toHost, [player |-> player, remote |-> tree[node],
                                     args |-> args, req |-> 0])
        /\ UNCHANGED <<hostVars, clock, toPeer, served, client, call, last>>

\* a listener of OnInvoke that fires the result at every player
replyToEveryone(m, payload) ==
    fireEach(m.remote, Players)

\* the listener of OnInvoke, lines 501-507: route.remote.FireClient(player,
\* result)
replyTo(m, payload) ==
    <<[player |-> m.player, remote |-> m.remote, payload |-> payload, req |-> m.req]>>

\* a message reaches the listener OnEvent / OnInvoke connected to its remote
ServerReceive ==
    \E i \in 1..Len(toHost) :
        LET m == toHost[i]
            route == routes[m.remote]
            callback == route.connection.callback
            g == gate(route, m.player, clock, m.args)
            replies == g.ok /\ callback # "event"
            payload == IF callback = "get-tree"
                       THEN Defined(simplifiedTree(Host))
                       ELSE resultOf(callback, m.args)
        IN  /\ Deliverable(toHost, i)
            /\ route.connection.connected
            /\ replies => Len(toPeer) < MaxWire
            /\ routes' = [routes EXCEPT ![m.remote].middleware = g.middleware,
                                        ![m.remote].connection = afterFiring(@)]
            /\ toHost' = RemoveAt(toHost, i)
            /\ toPeer' = IF replies THEN toPeer \o replyTo(m, payload) ELSE toPeer
            /\ served' = IF g.ok THEN served \cup {m.req} ELSE served
            /\ last' = [op |-> "receive", outcome |-> g.why, val |-> m.remote,
                        path |-> <<>>, endPoint |-> <<>>, player |-> m.player,
                        args |-> m.args, ran |-> g.ran, handled |-> g.ok]
            /\ UNCHANGED <<started, tree, record, clock, client, call>>

\* a FireClient message reaches one of the given players, whose listener
\* takes it
PlayerTakes(players) ==
    \E i \in 1..Len(toPeer) :
        /\ Deliverable(toPeer, i)
        /\ toPeer[i].player \in players
        /\ toPeer' = RemoveAt(toPeer, i)
        /\ UNCHANGED <<hostVars, clock, toHost, served, client, call, last>>

\* time passes
TickUntil(limit) ==
    /\ clock < limit
    /\ ~(call.pc = "waiting" /\ clock >= call.wake + MaxLate)
    /\ clock' = clock + 1
    /\ UNCHANGED <<hostVars, toHost, toPeer, served, client, call, last>>

Tick == TickUntil(MaxClock)

-----------------------------------------------------------------------------
(* Actions: the peer *)

\* Network.start() of the peer; WaitForChild returns once the host has
\* created the get-tree remote
ClientStart ==
    /\ call.pc # "waiting"
    /\ <<NetworkName, GetTreeName>> \in DOMAIN tree
    /\ Len(toHost) < MaxWire
    /\ LET r == startClient(client, call, tree[<<NetworkName, GetTreeName>>], clock)
       IN  /\ client' = r.client
           /\ call' = r.call
           /\ toHost' = toHost \o r.send
    /\ UNCHANGED <<hostVars, clock, toPeer, served, last>>

\* the peer after the call that returned r
PeerBecomes(op, r, route) ==
    /\ Len(toHost) + Len(r.send) <= MaxWire
    /\ client' = r.client
    /\ toHost' = toHost \o r.send
    /\ last' = [op |-> op, outcome |-> r.err, val |-> 0, path |-> route,
                endPoint |-> <<>>, player |-> LocalPlayer, args |-> "none",
                ran |-> <<>>, handled |-> FALSE]
    /\ UNCHANGED <<hostVars, clock, toPeer, served, call>>

ClientFireServer(paths, argses) ==
    \E route \in paths, args \in argses :
        /\ call.pc # "waiting"
        /\ PeerBecomes("peer.FireServer", FireServer(client, route, args, clock), route)

ClientOnEvent(eventTypes, paths) ==
    \E eventType \in eventTypes, route \in paths :
        /\ call.pc # "waiting"
        /\ PeerBecomes("peer.OnEvent", peerOnEvent(client, eventType, route), route)

ClientDisconnect(paths) ==
    \E route \in paths :
        /\ call.pc # "waiting"
        /\ PeerBecomes("peer.Disconnect", peerDisconnect(client, route), route)

\* a FireClient message reaches the listener OnEvent of the peer connected
ClientReceive ==
    \E i \in 1..Len(toPeer), route \in DOMAIN client.connections :
        /\ Deliverable(toPeer, i)
        /\ toPeer[i].player = LocalPlayer
        /\ client.connections[route].connected
        /\ client.connections[route].remote = toPeer[i].remote
        /\ client' = [client EXCEPT !.connections[route] = afterFiring(@)]
        /\ toPeer' = RemoveAt(toPeer, i)
        /\ last' = [op |-> "peer.receive", outcome |-> "none", val |-> toPeer[i].remote,
                    path |-> route, endPoint |-> <<>>, player |-> LocalPlayer,
                    args |-> "none", ran |-> <<>>, handled |-> TRUE]
        /\ UNCHANGED <<hostVars, clock, toHost, served, call>>

\* Network.InvokeServer(route, waitTime, ...args) called by a user thread
ClientInvokeServer(paths, waitTimes, argses) ==
    \E route \in paths, waitTime \in waitTimes, args \in argses :
        /\ call.pc # "waiting"
        /\ Len(toHost) < MaxWire
        /\ LET r == InvokeServer(client, "user", route, waitTime, args, clock)
               attached == /\ r.call.remote # 0
                           /\ routes[r.call.remote].connection.connected
           IN  /\ r.client.sent <= MaxInvokes + 1
               /\ client' = r.client
               /\ call' = [r.call EXCEPT !.attached = attached]
               /\ toHost' = toHost \o r.send
        /\ UNCHANGED <<hostVars, clock, toPeer, served, last>>

\* the thread in wait(0.1) is resumed and evaluates the loop condition
ClientPoll ==
    /\ call.pc = "waiting"
    /\ clock >= call.wake
    /\ call' = poll(call, clock)
    /\ client' = installed(client, call')
    /\ UNCHANGED <<hostVars, clock, toHost, toPeer, served, last>>

\* a FireClient message reaches the Once listener of InvokeServer; while no
\* listener is connected the remote keeps the message queued
ClientDeliver ==
    \E i \in 1..Len(toPeer) :
        /\ Deliverable(toPeer, i)
        /\ toPeer[i].player = LocalPlayer
        /\ call.listening
        /\ call.remote = toPeer[i].remote
        /\ call' = [call EXCEPT !.result = toPeer[i].payload, !.listening = FALSE,
                                !.got = toPeer[i].req]
        /\ toPeer' = RemoveAt(toPeer, i)
        /\ UNCHANGED <<hostVars, clock, toHost, served, client, last>>

\* wait(0.1) yields: while the thread of start is in the wait of its
\* InvokeServer, another thread of the peer calls Network.FireServer
ConcurrentFireServer(paths, argses) ==
    \E route \in paths, args \in argses :
        /\ call.pc = "waiting"
        /\ call.caller = "start"
        /\ PeerBecomes("peer.FireServer", FireServer(client, route, args, clock), route)

\* ... or calls Network.start()
ConcurrentStart ==
    /\ call.pc = "waiting"
    /\ call.caller = "start"
    /\ <<NetworkName, GetTreeName>> \in DOMAIN tree
    /\ LET r == startClient(client, call, tree[<<NetworkName, GetTreeName>>], clock)
       IN  /\ call' = r.call
           /\ PeerBecomes("peer.start", PeerRet(r.client, r.send, "none"), GetTreePath)

-----------------------------------------------------------------------------
(* Properties of the route tree *)

\* C1: after a successful NewRoute(P, {endPoint: e}), traversePath(P/e) with
\* createMissing = false returns the node that carries the Route just made.
C1_NewRouteThenTraverse ==
    (last.op = "NewRoute" /\ last.outcome = "none") =>
        LET t == traversePath(Host, last.path \o Slash \o last.endPoint, FALSE)
        IN  t.err = "none" /\ tree[t.val] = last.val

\* C2: a NewRoute whose end point already is a child of the parent throws
\* DuplicateRoute and leaves the tree, the Route objects and the cache as
\* they were; no NewRoute replaces a node that exists, and sibling nodes
\* never get the same flattened address.
SiblingsDistinct(h) ==
    \A e1, e2 \in Flatten(h) :
        (e1.node # e2.node /\ Len(e1.node) = Len(e2.node) /\ Len(e1.node) > 0
            /\ SubSeq(e1.node, 1, Len(e1.node) - 1) = SubSeq(e2.node, 1, Len(e2.node) - 1))
        => e1.key # e2.key

C3_FlattenRoundTrip ==
    started =>
        /\ Cardinality({e.key : e \in Flatten(Host)}) = Cardinality(DOMAIN tree)
        /\ \A e \in Flatten(Host) :
              LET t == traversePath(Host, e.key, FALSE)
              IN  t.err = "none" /\ t.val = e.node

\* C4: EditRoute whose target address is one of unEditableRoutes changes
\* neither the tree nor any Route object.
IsUnEditable(address) ==
    \E i \in DOMAIN unEditableRoutes : unEditableRoutes[i] = lower(address)

C4_EditImmutableIsNoOp ==
    [][ (last'.op = "EditRoute" /\ IsUnEditable(last'.path \o Slash \o last'.endPoint))
            => (tree' = tree /\ routes' = routes)
      ]_vars

\* C5: a successful EditRoute puts the new Route at the target node and
\* changes nothing else: every other node keeps its Route object, the nodes
\* below the target stay reachable by traversePath, no Route object changes.
C5_EditPreservesDescendants ==
    [][ (last'.op = "EditRoute" /\ last'.outcome = "none") =>
            LET node == routes'[last'.val].at
            IN  /\ node \in DOMAIN tree
                /\ tree'[node] = last'.val
                /\ last'.val \notin 1..Len(routes)
                /\ DOMAIN tree' = DOMAIN tree
                /\ \A n \in DOMAIN tree : n # node => tree'[n] = tree[n]
                /\ \A i \in 1..Len(routes) : routes'[i] = routes[i]
                /\ \A n \in DOMAIN tree :
                      (IsPrefix(node, n) /\ n # node) =>
                          LET before == traversePath(Host, Address(n), FALSE)
                              after == traversePath(Host', Address(n), FALSE)
                          IN  before.err = "none" =>
                                  /\ after.err = "none"
                                  /\ tree'[after.val] = tree[before.val]
      ]_vars

C5_Witness ==
    /\ last.op = "EditRoute"
    /\ last.outcome = "none"
    /\ \E n \in DOMAIN tree : IsPrefix(routes[last.val].at, n) /\ n # routes[last.val].at

\* C10: no address ever has two connected listeners.
C10_OneListenerPerAddress ==
    \A i, j \in LiveRoutes : routes[i].at = routes[j].at => i = j

-----------------------------------------------------------------------------
(* Properties of the host life cycle *)

GetTreeNode == <<NetworkName, GetTreeName>>

ImplicitStarters ==
    {"NewRoute", "Disconnect", "FireClient", "FireAllClients", "FireClientsInList"}

\* what the call recorded in l returns on host h, for each routeParam the
\* record allows
Outcomes(h, l, routeParams) ==
    IF l.op = "NewRoute"
    THEN {NewRoute(h, l.path, rp) : rp \in {x \in routeParams : x.endPoint = l.endPoint}}
    ELSE IF l.op = "Disconnect" THEN {Disconnect(h, l.path)}
    ELSE IF l.op = "FireClient" THEN {FireClient(h, l.path)}
    ELSE IF l.op = "FireAllClients" THEN {FireAllClients(h, l.path)}
    ELSE {FireClientsInList(h, l.path)}

\* C13: NewRoute, Disconnect, FireClient, FireAllClients and
\* FireClientsInList called before start end as the same call ends on the
\* host that start() alone leaves, and leave the same host.
C13_ImplicitStart ==
    [][(~started /\ last'.op \in ImplicitStarters) =>
          \E r \in Outcomes(start(Host).h, last', FireNewRouteParams) :
              /\ last'.outcome = r.err
              /\ Host' = r.h]_vars

\* the kind of the Route the tree holds at the address a path names
KindAt(h, path) ==
    LET t == traversePathOn(h, path, FALSE)
    IN  IF h.started /\ t.err = "none" THEN h.routes[h.tree[t.val]].remoteType
        ELSE "none"

\* the kind the routing table of the peer gives for a route
PeerKindAt(c, route) ==
    IF c.instance # "none" /\ route \in DOMAIN c.routingTable
    THEN c.routingTable[route].remoteType
    ELSE "none"

\* a call that threw sent nothing, connected nothing and logged nothing
NothingDone ==
    /\ UNCHANGED <<toHost, toPeer>>
    /\ client'.log = client.log
    /\ client'.connections = client.connections
    /\ call'.listening = call.listening
    /\ Len(routes') = Len(routes)
    /\ \A i \in 1..Len(routes) :
          /\ routes'[i].connection = routes[i].connection
          /\ routes'[i].middleware = routes[i].middleware

\* C11: on an address that holds a "function" route, OnEvent, FireClient,
\* FireAllClients, FireClientsInList of the host and FireServer, OnEvent of
\* the peer throw WrongCallKind; on an address that holds an "event" route,
\* OnInvoke of the host and InvokeServer of the peer do; and such a call
\* sends no message, connects no listener and changes no cooldown log.
C11_CallKindDiscipline ==
    [][/\ (/\ last'.op \in {"OnEvent", "FireClient", "FireAllClients",
                            "FireClientsInList"}
           /\ KindAt(Host, last'.path) = "function")
          => (last'.outcome = "WrongCallKind" /\ NothingDone)
       /\ (last'.op = "OnInvoke" /\ KindAt(Host, last'.path) = "event")
          => (last'.outcome = "WrongCallKind" /\ NothingDone)
       /\ (/\ last'.op \in {"peer.FireServer", "peer.OnEvent"}
           /\ PeerKindAt(client, last'.path) = "function")
          => (last'.outcome = "WrongCallKind" /\ NothingDone)
       /\ (/\ call' # call
           /\ call.pc # "waiting"
           /\ call'.caller = "user"
           /\ PeerKindAt(client, call'.route) = "event")
          => (call'.pc = "WrongCallKind" /\ NothingDone)]_vars

\* C14: the first start builds root, root/network and root/network/get-tree,
\* the last a "function" route with a cooldown of 5 s and its listener
\* connected; a start of a started host changes nothing of the host; a
\* started host stays started.
C14_StartOnceAndForAll ==
    [][/\ started => started'
       /\ (~started /\ last'.op = "start") =>
             /\ started'
             /\ DOMAIN tree' = {RootNode, <<NetworkName>>, GetTreeNode}
             /\ Len(routes') = 3
             /\ \A n \in DOMAIN tree' : routes'[tree'[n]].at = n
             /\ Address(GetTreeNode) = GetTreePath
             /\ routes'[tree'[GetTreeNode]].remoteType = "function"
             /\ routes'[tree'[GetTreeNode]].middleware.clientSideCooldown
                    = 5 * TicksPerSecond
             /\ routes'[tree'[GetTreeNode]].connection.connected
             /\ routes'[tree'[GetTreeNode]].connection.callback = "get-tree"
             /\ \A n \in {RootNode, <<NetworkName>>} :
                   /\ routes'[tree'[n]].remoteType = "event"
                   /\ ~routes'[tree'[n]].connection.connected
       /\ (started /\ last'.op = "start") =>
             UNCHANGED <<started, routes, tree, record>>]_vars

\* start was called on a host that had built more than the default tree
C14_Witness ==
    /\ started
    /\ last.op = "start"
    /\ Len(routes) > 3
    /\ LiveRoutes # {}

\* C19: once the host is started, root/network/get-tree is a "function"
\* route of the tree with the get-tree listener connected.
C19_GetTreeAlwaysServed ==
    started =>
        /\ GetTreeNode \in DOMAIN tree
        /\ routes[tree[GetTreeNode]].remoteType = "function"
        /\ routes[tree[GetTreeNode]].connection.connected
        /\ routes[tree[GetTreeNode]].connection.callback = "get-tree"

-----------------------------------------------------------------------------
(* Properties of the middleware *)

\* a step in which a listener took a message: last' describes that message
ReceiveStep == Len(toHost') < Len(toHost)

\* a step in which the thread in wait(0.1) evaluates the loop condition
PollStep == call.pc = "waiting" /\ (call'.pc = "returned" \/ call'.wake # call.wake)

\* C6: for one player, the first use of a route's middleware passes the
\* cooldown test and records the current time as last use; a later use
\* less than clientSideCooldown after the recorded one is rejected, leaves
\* the log as it was and runs no callback nor the handler; a later use at
\* least clientSideCooldown after it passes the test and records the
\* current time.  The other players' entries are never touched.
C6_CooldownGate ==
    [][(ReceiveStep /\ routes[last'.val].middleware.present) =>
        LET mw == routes[last'.val].middleware
            after == routes'[last'.val].middleware
            p == last'.player
            lastUse == mw.log[p]
        IN  /\ lastUse = NoLog =>
                (last'.outcome # "cooldown" /\ after.log[p] = clock)
            /\ (lastUse # NoLog /\ clock - lastUse < mw.clientSideCooldown) =>
                /\ last'.outcome = "cooldown"
                /\ after.log = mw.log
                /\ last'.ran = <<>>
                /\ ~last'.handled
                /\ toPeer' = toPeer
            /\ (lastUse # NoLog /\ clock - lastUse >= mw.clientSideCooldown) =>
                (last'.outcome # "cooldown" /\ after.log[p] = clock)
            /\ \A q \in Players \ {p} : after.log[q] = mw.log[q]]_vars

\* a player used a route with cooldown 5 at time 0 and was rejected at time 3
C6_Witness ==
    /\ last.op = "receive"
    /\ last.outcome = "cooldown"
    /\ clock = 3
    /\ routes[last.val].middleware.clientSideCooldown = 5
    /\ routes[last.val].middleware.log[last.player] = 0

\* C7: when the cooldown test passes, the callbacks run in registration
\* order up to and including the first one that raises; a raise makes the
\* listener return without running the handler or any later callback, the
\* earlier callbacks have run, and the use is already recorded; the handler
\* runs only if the test passed and no callback raised.
C7_CallbackChain ==
    [][(ReceiveStep /\ routes[last'.val].middleware.present
                    /\ last'.outcome # "cooldown") =>
        LET mw == routes[last'.val].middleware
            after == routes'[last'.val].middleware
            cbs == mw.middlewares
            ran == last'.ran
            n == Len(ran)
            firstRaise == {k \in 1..Len(cbs) :
                              /\ raises(cbs[k], last'.args)
                              /\ \A j \in 1..(k - 1) : ~raises(cbs[j], last'.args)}
        IN  /\ \A i \in 1..n : ran[i] = i
            /\ \A k \in firstRaise :
                  /\ n = k
                  /\ last'.outcome = "raised"
                  /\ ~last'.handled
                  /\ toPeer' = toPeer
            /\ firstRaise = {} =>
                  /\ n = Len(cbs)
                  /\ last'.outcome = "passed"
                  /\ last'.handled
            /\ after.log[last'.player] = clock]_vars

\* the second of three callbacks raised: two have run, the third has not,
\* the handler was not called and the use is recorded
C7_Witness ==
    /\ last.op = "receive"
    /\ last.outcome = "raised"
    /\ last.ran = <<1, 2>>
    /\ ~last.handled
    /\ Len(routes[last.val].middleware.middlewares) = 3
    /\ routes[last.val].middleware.log[last.player] = clock

\* C22: an EditRoute whose path leads to no node, or whose end point is no
\* child of the node the path leads to, warns and returns: it throws
\* nothing and leaves the tree, the Route objects and the cache as they were.
C22_EditMissingIsNoOp ==
    [][(last'.op = "EditRoute" /\ last' # last /\ started) =>
          LET t == traversePath(Host, last'.path, FALSE)
              missing == \/ t.err = "RouteNotFound"
                         \/ t.err = "none" /\ ~hasChild(tree, t.val, last'.endPoint)
          IN  missing => /\ last'.outcome = "warn-missing"
                         /\ UNCHANGED hostVars]_vars

\* the listener that took the message of a receive step is one of OnInvoke
InvokeListener(route) ==
    route.remoteType = "function" /\ route.connection.callback \in {"invoke", "get-tree"}

\* C23: when the listener of OnInvoke takes a request that passes the
\* middleware, the callback runs and the host puts one message on the wire:
\* it carries the value the callback returned, on the remote the request came
\* by, for the player who sent the request; nothing is sent to anyone else.
\* A request the middleware rejects puts nothing on the wire.
C23_OneReplyToTheSender ==
    [][(ReceiveStep /\ InvokeListener(routes[last'.val])) =>
          LET callback == routes[last'.val].connection.callback
          IN  IF last'.outcome = "passed"
              THEN /\ last'.handled
                   /\ Len(toPeer') = Len(toPeer) + 1
                   /\ SubSeq(toPeer', 1, Len(toPeer)) = toPeer
                   /\ toPeer'[Len(toPeer')].player = last'.player
                   /\ toPeer'[Len(toPeer')].remote = last'.val
                   /\ toPeer'[Len(toPeer')].payload =
                          IF callback = "get-tree"
                          THEN Defined(simplifiedTree(Host))
                          ELSE resultOf(callback, last'.args)
              ELSE /\ ~last'.handled
                   /\ toPeer' = toPeer]_vars

\* player 2 sent a request that passed the middleware of root/a, and the
\* reply on the wire is for player 2
C23_Witness ==
    /\ last.op = "receive"
    /\ last.player = 2
    /\ last.outcome = "passed"
    /\ <<StrA>> \in DOMAIN tree
    /\ last.val = tree[<<StrA>>]
    /\ Len(toPeer) = 1
    /\ toPeer[1].player = 2
    /\ toPeer[1].payload = Defined("sum")

\* C24: the listener calls the handler for a message only if the Route has no
\* middleware or execute returns true for the message; and a message that
\* the cooldown test or a raising callback rejects ends the listener without
\* an error and leaves the tree, the cache and the connection of every Route
\* as they were.
C24_RejectionIsSilent ==
    [][ReceiveStep =>
          LET route == routes[last'.val]
          IN  /\ last'.handled =>
                    \/ ~route.middleware.present
                    \/ execute(route.middleware, last'.player, clock, last'.args).ok
              /\ ~last'.handled =>
                    /\ last'.outcome \in {"cooldown", "raised"}
                    /\ UNCHANGED <<started, tree, record>>
                    /\ Len(routes') = Len(routes)
                    /\ \A i \in 1..Len(routes) :
                           routes'[i].connection = routes[i].connection]_vars

\* C29: OnEvent and OnInvoke of the host throw AlreadyConnected only while
\* the listener of the Route is still subscribed to its remote; after a Once
\* listener has fired, the next OnEvent on the path connects.
C29_AlreadyConnectedMeansLive ==
    [][(last'.op \in {"OnEvent", "OnInvoke"} /\ last' # last
          /\ last'.outcome = "AlreadyConnected") =>
          LET g == getRoute(Host, last'.path)
          IN  g.err = "none" /\ routes[g.val].connection.connected]_vars

\* C26: every entry of the cache is the Route that the tree holds at the
\* node its path leads to.
C26_CacheCoherent ==
    started =>
        \A path \in DOMAIN record :
            LET t == traversePath(Host, path, FALSE)
            IN  t.err = "none" /\ record[path] = tree[t.val]

-----------------------------------------------------------------------------
(* Properties of the peer registry *)

\* a step in which the peer made the call `op`, one that is not InvokeServer
PeerCallStep(op) == last'.op = op /\ call' = call /\ clock' = clock

\* a step in which a user thread of the peer called InvokeServer
InvokeStep == call' # call /\ call.pc # "waiting" /\ call'.caller = "user"

\* the log of the peer after a call on route at the current time
Logged(route) ==
    [r \in DOMAIN client.log \cup {route} |->
        IF r = route THEN clock ELSE client.log[r]]

\* the peer logged a call on route less than its cooldown ago
TooSoon(route) ==
    /\ client.routingTable[route].cooldown > 0
    /\ route \in DOMAIN client.log
    /\ clock - client.log[route] < client.routingTable[route].cooldown

\* C17: FireServer on an "event" route of the table throws CooldownActive,
\* sends nothing and leaves the log alone when the log holds a call on that
\* route less than its cooldown ago; otherwise it puts one message on the
\* remote of the route and logs the current time for the route.
\* InvokeServer on a "function" route does the same.
C17_PeerCooldownGate ==
    [][/\ (PeerCallStep("peer.FireServer")
              /\ PeerKindAt(client, last'.path) = "event") =>
             IF TooSoon(last'.path)
             THEN /\ last'.outcome = "CooldownActive"
                  /\ UNCHANGED <<toHost, client>>
             ELSE /\ last'.outcome = "none"
                  /\ Len(toHost') = Len(toHost) + 1
                  /\ SubSeq(toHost', 1, Len(toHost)) = toHost
                  /\ toHost'[Len(toHost')].player = LocalPlayer
                  /\ toHost'[Len(toHost')].remote
                        = client.routingTable[last'.path].remote
                  /\ client'.log = Logged(last'.path)
       /\ (InvokeStep /\ PeerKindAt(client, call'.route) = "function") =>
             IF TooSoon(call'.route)
             THEN /\ call'.pc = "CooldownActive"
                  /\ UNCHANGED <<toHost, client>>
             ELSE /\ call'.pc \in {"waiting", "returned"}
                  /\ Len(toHost') = Len(toHost) + 1
                  /\ SubSeq(toHost', 1, Len(toHost)) = toHost
                  /\ toHost'[Len(toHost')].player = LocalPlayer
                  /\ toHost'[Len(toHost')].remote
                        = client.routingTable[call'.route].remote
                  /\ client'.log = Logged(call'.route)]_vars

\* a send on root/a, cooldown 2, one tick after the send that was logged
C17_Witness ==
    /\ last.op = "peer.FireServer"
    /\ last.outcome = "CooldownActive"
    /\ last.path = PathA
    /\ client.routingTable[PathA].cooldown = 2
    /\ client.log[PathA] = clock - 1

\* the peer calls that are not InvokeServer
PeerCalls == {"peer.FireServer", "peer.OnEvent", "peer.Disconnect"}

\* C15: when the InvokeServer of start returns undefined, which it does once
\* five seconds have passed without a reply, start leaves no instance and
\* sends nothing more (the thread has left start: BootstrapFailed); and
\* while there is no instance, FireServer, OnEvent, Disconnect and
\* InvokeServer throw NotInitialized, send nothing and leave the peer as it
\* was. Only a new call of start makes a get-tree request.
C15_BootstrapFailure ==
    [][/\ (PollStep /\ call.caller = "start" /\ call'.pc = "returned"
             /\ call.result = Undefined) =>
           /\ clock - call.startTime >= BootstrapWait * TicksPerSecond
           /\ call'.ret = Undefined
           /\ client'.instance = "none"
           /\ client'.routingTable = <<>>
           /\ toHost' = toHost
       /\ (client.instance = "none" /\ last'.op \in PeerCalls
             /\ PeerCallStep(last'.op)) =>
           /\ last'.outcome = "NotInitialized"
           /\ UNCHANGED <<toHost, client>>
       /\ (client.instance = "none" /\ InvokeStep) =>
           /\ call'.pc = "NotInitialized"
           /\ UNCHANGED <<toHost, client>>
       /\ (client.instance = "none" /\ toHost' # toHost /\ Len(toHost') >= Len(toHost)) =>
           /\ call'.caller = "start"
           /\ call'.startTime = clock
           /\ client'.instance = "bootstrap"]_vars

\* start has failed, and the send made after it threw NotInitialized
C15_Witness ==
    /\ call.caller = "start"
    /\ call.pc = "returned"
    /\ call.ret = Undefined
    /\ client.instance = "none"
    /\ last.op = "peer.FireServer"
    /\ last.outcome = "NotInitialized"
    /\ clock >= BootstrapWait * TicksPerSecond

\* what a peer has to learn about the Route of a tree node
InfoAt(h, node) ==
    LET route == h.routes[h.tree[node]]
    IN  [remote |-> route.remote, secure |-> route.secure,
         remoteType |-> route.remoteType,
         cooldown |-> IF route.middleware.present
                      THEN route.middleware.clientSideCooldown
                      ELSE NoCooldown]

\* the table has one key for the address of each node of the tree, and
\* nothing else, and the entry of each address is the Route's information
Mirrors(table, h) ==
    /\ DOMAIN table = {Address(node) : node \in DOMAIN h.tree}
    /\ \A node \in DOMAIN h.tree : table[Address(node)] = InfoAt(h, node)

\* C16: the reply of the get-tree handler carries the table that mirrors the
\* tree of the host at the time the request is handled; the listener of start
\* keeps the payload of the reply as it came; and the table the successful
\* start installs is that payload. So the keys of the installed table are
\* the flattened addresses of the host at handling time, each with the
\* remote, secure flag, remoteType and cooldown of the Route at the address.
C16_TableMirrorsHost ==
    [][/\ (ReceiveStep /\ Len(toPeer') > Len(toPeer)
             /\ routes[last'.val].connection.callback = "get-tree") =>
           LET reply == toPeer'[Len(toPeer')]
           IN  /\ reply.payload # Undefined
               /\ reply.player = last'.player
               /\ Mirrors(reply.payload[1], Host)
       /\ (Len(toPeer') < Len(toPeer) /\ call.caller = "start") =>
           \E i \in 1..Len(toPeer) :
               /\ toPeer[i].remote = tree[GetTreeNode]
               /\ call'.result = toPeer[i].payload
       /\ (client.instance = "bootstrap" /\ client'.instance # "bootstrap") =>
           IF call.result = Undefined
           THEN client'.instance = "none"
           ELSE /\ client'.instance = "table"
                /\ client'.routingTable = call.result[1]]_vars

\* start has installed a table in which root/a is an event route, taken
\* before the host made root/a a function route
C16_Witness ==
    /\ client.instance = "table"
    /\ PathA \in DOMAIN client.routingTable
    /\ client.routingTable[PathA].remoteType = "event"
    /\ client.routingTable[PathA].cooldown = 2
    /\ <<StrA>> \in DOMAIN tree
    /\ routes[tree[<<StrA>>]].remoteType = "function"

\* the host calls that look a path up with getRoute
HostLookups ==
    {"OnEvent", "OnInvoke", "Disconnect", "FireClient", "FireAllClients",
     "FireClientsInList"}

\* C21: a host call that looks up a path which is, but for the case of its
\* letters, the flattened address of a node acts on the Route of that node;
\* a FireServer or InvokeServer of the peer on a route which is, but for the
\* case of its letters, a key of its table finds the entry of that key.
C21_CaseInsensitive ==
    [][/\ (last'.op \in HostLookups /\ last' # last /\ started) =>
             \A e \in Flatten(Host) :
                 lower(e.key) = lower(last'.path) =>
                     /\ getRoute(Host, last'.path).err = "none"
                     /\ getRoute(Host, last'.path).val = tree[e.node]
       /\ (PeerCallStep("peer.FireServer") /\ client.instance = "table") =>
             \A key \in DOMAIN client.routingTable :
                 lower(key) = lower(last'.path) =>
                     last'.outcome # "RouteNotFound"
       /\ (InvokeStep /\ client.instance = "table") =>
             \A key \in DOMAIN client.routingTable :
                 lower(key) = lower(call'.route) =>
                     call'.pc # "RouteNotFound"]_vars

\* C20: once start has installed the table, the instance keeps that very
\* table whatever the peer or the host does next, start makes no further
\* get-tree call, and no step of the peer touches the tree of the host, its
\* cache or its Route objects.
C20_TableFrozen ==
    [][/\ client.instance = "table" =>
             /\ client'.instance = "table"
             /\ client'.routingTable = client.routingTable
             /\ call'.caller = "start" => call' = call
       /\ (client' # client \/ call' # call) =>
             /\ UNCHANGED <<started, tree, record>>
             /\ Len(routes') = Len(routes)]_vars

\* the peer holds a table taken before the host made root/a, and its send
\* on root/a did not find the route
C20_Witness ==
    /\ client.instance = "table"
    /\ <<StrA>> \in DOMAIN tree
    /\ PathA \notin DOMAIN client.routingTable
    /\ last.op = "peer.FireServer"
    /\ last.outcome = "RouteNotFound"

-----------------------------------------------------------------------------
(* Properties of InvokeServer *)

\* the arguments of the activation make a callback of the route raise
Rejects(frame) ==
    \E k \in 1..Len(routes[frame.remote].middleware.middlewares) :
        raises(routes[frame.remote].middleware.middlewares[k], frame.args)

\* an InvokeServer of a user thread has sent its request and returned
Returned == call.pc = "returned" /\ call.caller = "user"

C25_ListenerDetachedOnExit ==
    [][call.pc = "returned" =>
          /\ ~call.listening
          /\ Len(toPeer') >= Len(toPeer)
          /\ SubSeq(toPeer', 1, Len(toPeer)) = toPeer
          /\ call' # call => (call'.req # call.req \/ call'.pc # "returned")]_vars

\* an invoke returned undefined at its timeout and the reply to its request
\* came onto the wire after that
C25_Witness ==
    /\ Returned
    /\ call.ret = Undefined
    /\ call.got = 0
    /\ \E i \in 1..Len(toPeer) :
          /\ toPeer[i].req = call.req
          /\ toPeer[i].remote = call.remote
          /\ toPeer[i].player = LocalPlayer

\* C27: a value InvokeServer returns is the reply of the host to the request
\* that this call of InvokeServer sent.
C27_ReplyCorrelation ==
    (call.pc = "returned" /\ call.ret # Undefined) => call.got = call.req

\* C28: InvokeServer returns undefined only if its listener got no reply to
\* its request; and the first poll after the listener got the reply returns.
C28_UndefinedMeansTimeout ==
    [][(PollStep /\ call.caller = "user") =>
          /\ (call'.pc = "returned" /\ call'.ret = Undefined) => call.got # call.req
          /\ call.got = call.req => call'.pc = "returned"]_vars

\* C30: a call of the peer never finds the registry holding the bootstrap
\* table, and a start that returns leaves the full table installed.
C30_NoPartialPeerState ==
    [][(last' # last /\ last'.op \in {"peer.FireServer", "peer.start"}) =>
          /\ client.instance \in {"none", "table"}
          /\ (last'.op = "peer.start" /\ last'.outcome = "none") =>
                 client'.instance = "table"]_vars

\* C9, as stated: an invoke that got no reply returns undefined when at
\* least waitTime and at most waitTime plus one polling interval has elapsed.
C9_InvokeTimeout ==
    (call.pc = "returned" /\ call.got = 0) =>
        /\ call.ret = Undefined
        /\ call.retAt - call.startTime >= call.waitTime
        /\ call.retAt - call.startTime <= call.waitTime + 1

\* the loop condition is evaluated one polling interval, and at most MaxLate
\* more, after the previous evaluation; the invoke returns at the first
\* evaluation at which waitTime has elapsed or a result is there, so without
\* a reply it returns undefined, never before waitTime
C9_PollSteps ==
    [][PollStep =>
        /\ clock >= call.wake
        /\ clock <= call.wake + MaxLate
        /\ call'.pc = "returned" <=>
              (clock - call.startTime >= call.waitTime \/ call.result # Undefined)
        /\ (call'.pc = "returned" /\ call.got = 0) =>
              /\ call'.ret = Undefined
              /\ call'.retAt = clock
              /\ clock - call.startTime >= call.waitTime
              /\ (call.wake - 1) - call.startTime < call.waitTime
              /\ ~call'.listening]_vars

\* C9, amended: as C9_PollSteps says, and an invoke whose timeout lies within
\* the run of the clock returns.
C9_InvokeTimeoutAmended ==
    /\ C9_PollSteps
    /\ (call.pc = "waiting" /\ call.startTime + call.waitTime + MaxLate <= MaxClock)
          ~> (call.pc = "returned")

\* an invoke got no reply and returned undefined more than one polling
\* interval after its timeout
C9_Witness ==
    /\ Returned
    /\ call.got = 0
    /\ call.ret = Undefined
    /\ call.retAt - call.startTime > call.waitTime + 1

-----------------------------------------------------------------------------
(* Specifications *)

NextHost ==
    \/ ServerStart
    \/ ServerNewRoute(NewRoutePaths, NewRouteParams)
    \/ ServerEditRoute(EditRoutePaths, EditRouteParams)
    \/ ServerOnEvent({"Connect"}, ListenPaths)
    \/ ServerOnInvoke({"Connect"}, ListenPaths)
    \/ ServerDisconnect(ListenPaths)

Spec == Init /\ [][NextHost]_vars

-----------------------------------------------------------------------------
(* The middleware pipeline: one route with a cooldown and three callbacks, *)
(* peers firing its remote.                                                *)

MwRouteParams ==
    {RouteParam(StrA, "event", Middleware(5, <<"log", "check", "log">>))}

NextMw ==
    \/ ServerStart
    \/ ServerNewRoute({PathRoot}, MwRouteParams)
    \/ ServerOnEvent({"Connect"}, {PathA})
    \/ RemoteFireServer(Players, {<<StrA>>}, {"good", "bad"})
    \/ ServerReceive
    \/ Tick

SpecMw == Init /\ [][NextMw]_vars

-----------------------------------------------------------------------------
(* The host editing routes under parents that exist and parents that do    *)
(* not.                                                                    *)

NextMissing ==
    \/ ServerStart
    \/ ServerNewRoute({PathRoot, PathA}, MissingNewRouteParams)
    \/ ServerEditRoute(MissingEditRoutePaths, MissingEditRouteParams)
    \/ ServerOnEvent({"Connect"}, {PathA})
    \/ ServerDisconnect({PathA})

SpecMissing == Init /\ [][NextMissing]_vars

-----------------------------------------------------------------------------
(* Host and peer looking up root/a and root/network/get-tree in lower and  *)
(* in upper case.                                                          *)

CaseRouteParams == {RouteParam(StrA, "event", NoMiddleware)}
PathUpperGetTree == ROOT_ROUTE_NAME \o Slash \o NetworkName \o Slash
                        \o <<"G", "E", "T", "-", "T", "R", "E", "E">>

NextCase ==
    \/ ServerStart
    \/ ServerNewRoute({PathRoot}, CaseRouteParams)
    \/ ServerOnEvent({"Connect"}, {PathA, PathUpperA})
    \/ ServerDisconnect({PathA, PathUpperA})
    \/ ClientStart
    \/ ServerReceive
    \/ ClientDeliver
    \/ ClientPoll
    \/ TickUntil(MaxPeerClock)
    \/ ClientFireServer({PathA, PathUpperA}, {"good"})
    \/ ClientInvokeServer({GetTreePath, PathUpperGetTree}, {1}, {"good"})

SpecCase == Init /\ [][NextCase]_vars

-----------------------------------------------------------------------------
(* An event route with a cooldown and a validation callback, listeners     *)
(* connected with Connect and with Once, and players firing its remote.    *)

OnceRouteParams == {RouteParam(StrA, "event", Middleware(2, <<"check">>))}

NextOnce ==
    \/ ServerStart
    \/ ServerNewRoute({PathRoot}, OnceRouteParams)
    \/ ServerOnEvent({"Connect", "Once"}, {PathA})
    \/ ServerDisconnect({PathA})
    \/ RemoteFireServer(Players, {<<StrA>>}, {"good", "bad"})
    \/ ServerReceive
    \/ TickUntil(MaxPeerClock)

SpecOnce == Init /\ [][NextOnce]_vars

-----------------------------------------------------------------------------
(* The bootstrap of the peer over a network that may hold the request or   *)
(* the reply back for longer than start waits, and the calls the peer      *)
(* makes before start, after a start that failed and after one that        *)
(* succeeded.  The calls of the user take no time: the clock moves while   *)
(* a thread of the peer is in wait(0.1).                                    *)

NextBoot ==
    \/ ServerStart
    \/ ClientStart
    \/ ServerReceive
    \/ ClientDeliver
    \/ ClientPoll
    \/ call.pc = "waiting" /\ TickUntil(MaxBootClock)
    \/ ClientFireServer({PathRoot}, {"good"})
    \/ ClientOnEvent({"Connect"}, {PathRoot})
    \/ ClientDisconnect({PathRoot})
    \/ ClientInvokeServer({GetTreePath}, {1}, {"good"})

SpecBoot == Init /\ [][NextBoot]_vars

-----------------------------------------------------------------------------
(* The end of a session: listeners on the root route and on a created      *)
(* route, peers firing their remotes, and peers leaving.                   *)

LeaveRouteParams == {RouteParam(StrA, "event", Middleware(2, <<>>))}

NextLeave ==
    \/ ServerStart
    \/ ServerNewRoute({PathRoot}, LeaveRouteParams)
    \/ ServerOnEvent({"Connect"}, {PathRoot, PathA})
    \/ RemoteFireServer(Players, {RootNode, <<StrA>>}, {"good"})
    \/ ServerReceive
    \/ TickUntil(MaxPeerClock)
    \/ PlayerRemoving(Players)

SpecLeave == Init /\ [][NextLeave]_vars

\* C18: right after the PlayerRemoving listener ran for a player, no Route
\* of the tree that carries middleware has a log entry of that player.
C18_SessionEndClearsLogs ==
    last.op = "PlayerRemoving" =>
        \A node \in DOMAIN tree :
            routes[tree[node]].middleware.present =>
                routes[tree[node]].middleware.log[last.player] = NoLog

-----------------------------------------------------------------------------
(* A request-response route with a validation callback, its handler, and   *)
(* the local player who starts its registry and invokes the route.         *)

E2ERouteParams == {RouteParam(StrA, "function", Middleware(1, <<"check">>))}

NextE2E ==
    \/ ServerStart
    \/ ServerNewRoute({PathRoot}, E2ERouteParams)
    \/ ServerOnInvoke({"Connect"}, {PathA})
    \/ ClientStart
    \/ ClientInvokeServer({PathA}, {1, 2}, {"good", "bad"})
    \/ ClientPoll
    \/ ClientDeliver
    \/ ServerReceive
    \/ Tick

SpecE2E == Init /\ [][NextE2E]_vars

SpecE2EFair == SpecE2E /\ WF_vars(Tick) /\ WF_vars(ClientPoll)

-----------------------------------------------------------------------------
(* A request-response route with a validation callback and its handler,    *)
(* and two players who send requests on its remote and take the replies.   *)

NextReply ==
    \/ ServerStart
    \/ ServerNewRoute({PathRoot}, E2ERouteParams)
    \/ ServerOnInvoke({"Connect"}, {PathA})
    \/ RemoteFireServer(Players, {<<StrA>>}, {"good", "bad"})
    \/ ServerReceive
    \/ PlayerTakes(Players)
    \/ TickUntil(MaxPeerClock)

SpecReply == Init /\ [][NextReply]_vars

-----------------------------------------------------------------------------
(* A request-response route whose handler returns nothing for some         *)
(* requests, and the local player who invokes it.                          *)

VoidRouteParams == {RouteParam(StrA, "function", NoMiddleware)}

NextVoid ==
    \/ ServerStart
    \/ ServerNewRoute({PathRoot}, VoidRouteParams)
    \/ ServerOnInvoke({"Connect"}, {PathA})
    \/ ClientStart
    \/ ClientInvokeServer({PathA}, {2}, {"good", "void"})
    \/ ClientPoll
    \/ ClientDeliver
    \/ ServerReceive
    \/ TickUntil(MaxPeerClock)

SpecVoid == Init /\ [][NextVoid]_vars

-----------------------------------------------------------------------------
(* The host firing at its peers, on routes it makes, edits and looks up.   *)

NextFire ==
    \/ ServerStart
    \/ ServerNewRoute({PathRoot}, FireNewRouteParams)
    \/ ServerEditRoute({PathRoot}, FireEditRouteParams)
    \/ ServerOnEvent({"Connect"}, {PathA, PathUpperA})
    \/ ServerOnInvoke({"Connect"}, {PathA, PathUpperA})
    \/ ServerDisconnect({PathA, PathUpperA})
    \/ ServerFireClient(FirePaths, {LocalPlayer})
    \/ ServerFireAllClients(FirePaths)
    \/ ServerFireClientsInList(FirePaths, {{2}, Players})

SpecFire == Init /\ [][NextFire]_vars

-----------------------------------------------------------------------------
(* The local player starts its registry, sends, listens and invokes on the *)
(* routes of its table while the host goes on making and editing routes.   *)

NextPeer ==
    \/ ServerStart
    \/ ServerNewRoute({PathRoot}, PeerRouteParams)
    \/ ServerEditRoute({PathRoot}, PeerEditRouteParams)
    \/ ServerOnEvent({"Connect"}, {PathA})
    \/ ClientStart
    \/ ClientFireServer(PeerPaths, {"good"})
    \/ ClientOnEvent({"Connect"}, PeerPaths)
    \/ ClientDisconnect({PathA})
    \/ ClientInvokeServer(PeerPaths, {1}, {"good"})
    \/ ClientPoll
    \/ ClientDeliver
    \/ ServerReceive
    \/ TickUntil(MaxPeerClock)

SpecPeer == Init /\ [][NextPeer]_vars

-----------------------------------------------------------------------------
(* Two threads of the peer: one in start, the other calling the registry   *)
(* while the first is in the wait of its bootstrap InvokeServer.           *)

NextRace ==
    \/ ServerStart
    \/ ClientStart
    \/ ServerReceive
    \/ ClientDeliver
    \/ ClientPoll
    \/ TickUntil(MaxPeerClock)
    \/ ClientFireServer({PathRoot, GetTreePath}, {"good"})
    \/ ConcurrentFireServer({PathRoot, GetTreePath}, {"good"})
    \/ ConcurrentStart

SpecRace == Init /\ [][NextRace]_vars

====
